---------------------------- MODULE Spec2Model ----------------------------
(***************************************************************************)
(* A model of steam_folder_finder.py: the keyword extractor, the folder    *)
(* matcher, the content assessor, the fuzzy search, the resolution of a    *)
(* wiki template, the folder discovery of SteamGameFinder.find_folders,    *)
(* the PCGamingWikiParser and the download of the catalog.                 *)
(*                                                                         *)
(* Strings are sequences of one-character strings, so that lower(),        *)
(* re.split, substring containment, startswith and endswith are computed   *)
(* character by character as Python computes them.                         *)
(***************************************************************************)
EXTENDS Integers, Sequences, FiniteSets, TLC

VARIABLES
    pc,             \* position of the operation being run
    app_name,       \* the game title (app_name / full_game_name)
    keywords,       \* extract_game_keywords: the returned token set
    folder_name,    \* find_game_folders: item, the directory entry looked at
    match_score,    \* calculate_folder_match_score: the returned score
    items,          \* assess_save_folder_confidence: os.listdir(folder_path)
    listable,       \* assess_save_folder_confidence: FALSE = PermissionError
    save_confidence,\* assess_save_folder_confidence: the returned confidence
    query,          \* fuzzy_search: the query
    apps,           \* fuzzy_search: the catalog
    matches,        \* fuzzy_search: the returned list
    wiki_paths,     \* find_folders: the template hints of the wiki lookup
    library,        \* find_folders: index of the library being checked
    hint_index,     \* find_folders: index of the wiki path being checked
    sub_index,      \* find_folders: index of the sub-location being probed
    listing,        \* find_game_folders: the entries of os.listdir visited so far
    found_folders,  \* find_folders: the (folder_type, path) pairs found so far
    shown,          \* find_folders: the sorted rows put into the results tree
    raised,         \* the exception that left find_folders, or "none"
    existing,       \* the paths os.path.exists answers True for
    in_save_section,    \* PCGamingWikiParser: inside the save-location section
    in_table_row,       \* PCGamingWikiParser: inside a <tr> of the section
    in_table_cell,      \* PCGamingWikiParser: inside a <td> of the row
    current_cell_data,  \* PCGamingWikiParser: the text of the cell so far
    current_row,        \* PCGamingWikiParser: the cells of the row so far
    save_locations,     \* PCGamingWikiParser: the paths collected
    cell_count,         \* PCGamingWikiParser: the cells closed in the row
    debug_sections,     \* PCGamingWikiParser: the span ids seen
    steam_apps,     \* SteamGameFinder: the in-memory catalog
    apps_at_start,  \* steam_apps when download_steam_apps was entered
    response,       \* download_steam_apps: data, the decoded reply
    status_var,     \* SteamGameFinder: the text of the status bar
    cache_file      \* the contents of the cache file, or "absent"

\* the locals of the pure functions
matchVars == <<keywords, folder_name, match_score>>
assessVars == <<items, listable, save_confidence>>
fuzzyVars == <<query, apps, matches>>
\* the state of find_folders
scanVars == <<wiki_paths, library, hint_index, sub_index, listing,
              found_folders, shown, raised, existing>>

\* the state of a PCGamingWikiParser
parserVars == <<in_save_section, in_table_row, in_table_cell, current_cell_data,
                current_row, save_locations, cell_count, debug_sections>>
\* the state download_steam_apps works on
downloadVars == <<steam_apps, apps_at_start, response, status_var, cache_file>>

vars == <<pc, app_name, matchVars, assessVars, fuzzyVars, scanVars, parserVars,
          downloadVars>>

NoValue == <<"-">>

-----------------------------------------------------------------------------
(* Python string primitives *)

UpperLetters == <<"A","B","C","D","E","F","G","H","I","J","K","L","M",
                  "N","O","P","Q","R","S","T","U","V","W","X","Y","Z">>

LowerLetters == <<"a","b","c","d","e","f","g","h","i","j","k","l","m",
                  "n","o","p","q","r","s","t","u","v","w","x","y","z">>

LowerChar(c) ==
    IF \E i \in 1..Len(UpperLetters) : UpperLetters[i] = c
    THEN LowerLetters[CHOOSE i \in 1..Len(UpperLetters) : UpperLetters[i] = c]
    ELSE c

\* str.lower()
Lower(s) == [i \in 1..Len(s) |-> LowerChar(s[i])]

\* s[a:b] with 1-based inclusive positions a..b
Slice(s, a, b) == [i \in 1..(b - a + 1) |-> s[a + i - 1]]

\* s.startswith(p)
StartsWith(s, p) == Len(p) <= Len(s) /\ Slice(s, 1, Len(p)) = p

\* s.endswith(p)
EndsWith(s, p) == Len(p) <= Len(s) /\ Slice(s, Len(s) - Len(p) + 1, Len(s)) = p

\* p in s
Contains(s, p) ==
    \E a \in 1..(Len(s) - Len(p) + 1) : Slice(s, a, a + Len(p) - 1) = p

\* the character class [:\-\s\(\)] of the two re.split calls
DelimChars == {":", "-", " ", "\t", "(", ")"}

\* the whitespace of str.split() and str.strip()
SpaceChars == {" ", "\t"}

RECURSIVE SplitRuns(_, _, _, _, _, _)
SplitRuns(s, i, cur, acc, inrun, seps) ==
    IF i > Len(s) THEN Append(acc, cur)
    ELSE IF s[i] \in seps
         THEN IF inrun THEN SplitRuns(s, i + 1, cur, acc, TRUE, seps)
              ELSE SplitRuns(s, i + 1, <<>>, Append(acc, cur), TRUE, seps)
         ELSE SplitRuns(s, i + 1, Append(cur, s[i]), acc, FALSE, seps)

\* re.split(r'[:\-\s\(\)]+', s): the pieces between maximal runs of
\* delimiters, with an empty piece before a leading and after a trailing run
ReSplit(s) == SplitRuns(s, 1, <<>>, <<>>, FALSE, DelimChars)

\* s.split(): the non-empty pieces between runs of whitespace
SelectNonEmpty(ps) == SelectSeq(ps, LAMBDA p : p # <<>>)

WhitespaceSplit(s) == SelectNonEmpty(SplitRuns(s, 1, <<>>, <<>>, FALSE, SpaceChars))

RECURSIVE StripLeft(_)
StripLeft(s) ==
    IF s # <<>> /\ Head(s) \in SpaceChars THEN StripLeft(Tail(s)) ELSE s

RECURSIVE StripRight(_)
StripRight(s) ==
    IF s # <<>> /\ s[Len(s)] \in SpaceChars
    THEN StripRight(SubSeq(s, 1, Len(s) - 1)) ELSE s

\* s.strip()
Strip(s) == StripLeft(StripRight(s))

Range(f) == {f[i] : i \in DOMAIN f}

RECURSIVE SumSeq(_)
SumSeq(ns) == IF ns = <<>> THEN 0 ELSE Head(ns) + SumSeq(Tail(ns))

Min(a, b) == IF a < b THEN a ELSE b

RECURSIVE JoinWith(_, _)
\* sep.join(parts)
JoinWith(parts, sep) ==
    IF parts = <<>> THEN <<>>
    ELSE IF Len(parts) = 1 THEN parts[1]
    ELSE parts[1] \o sep \o JoinWith(Tail(parts), sep)

-----------------------------------------------------------------------------
(* extract_game_keywords *)

common_words ==
    { <<"t","h","e">>, <<"a","n","d">>, <<"o","r">>, <<"o","f">>, <<"a">>,
      <<"a","n">>, <<"i","n">>, <<"o","n">>, <<"a","t">>, <<"t","o">>,
      <<"f","o","r">>, <<"w","i","t","h">>, <<"b","y">> }

\* KeywordWords without the stop-word filter
KeywordWords_NoStopFilter(name) ==
    LET parts == ReSplit(Lower(name))
        stripped == [i \in 1..Len(parts) |-> Strip(parts[i])]
    IN SelectSeq(stripped, LAMBDA p : Len(p) > 2)

\* the words list: the stripped pieces longer than 2 that are no common word
KeywordWords(name) ==
    LET parts == ReSplit(Lower(name))
        stripped == [i \in 1..Len(parts) |-> Strip(parts[i])]
    IN SelectSeq(stripped, LAMBDA p : Len(p) > 2 /\ p \notin common_words)

\* the variations of one word: itself, and without a plural 's'
Variations(word) ==
    IF EndsWith(word, <<"s">>) /\ Len(word) > 3
    THEN {word, SubSeq(word, 1, Len(word) - 1)}
    ELSE {word}

ExtractGameKeywords(name) ==
    UNION {Variations(w) : w \in Range(KeywordWords(name))}


-----------------------------------------------------------------------------
(* calculate_folder_match_score *)

game_patterns ==
    <<
      <<"s","a","v","e">>, <<"s","a","v","e","s">>,
      <<"s","a","v","e","g","a","m","e">>, <<"s","a","v","e","g","a","m","e","s">>,
      <<"s","a","v","e","d","a","t","a">>, <<"c","o","n","f","i","g">>,
      <<"s","e","t","t","i","n","g","s">>, <<"p","r","o","f","i","l","e">>,
      <<"p","r","o","f","i","l","e","s">>, <<"u","s","e","r">>,
      <<"d","a","t","a">>, <<"g","a","m","e">>,
      <<"l","o","c","a","l">>, <<"s","t","e","a","m">> >>

\* the word-overlap bonus of one folder name against the game's word set
OverlapScore(folder_lower, game_word_set) ==
    LET folder_words == Range(ReSplit(folder_lower))
        overlap == Cardinality(folder_words \cap game_word_set)
        total_game_words == Cardinality(game_word_set)
    IN IF folder_words # {} /\ game_word_set # {}
          /\ (overlap >= 2 \/ (overlap >= 1 /\ total_game_words <= 2))
       THEN overlap * 3
       ELSE 0

\* the score one game word adds: 2 when it occurs in the folder name, and 1
\* more when it is the name, or the name starts or ends with it
WordScore(word, folder_lower) ==
    IF Contains(folder_lower, word)
    THEN 2 + (IF word = folder_lower \/ StartsWith(folder_lower, word)
                 \/ EndsWith(folder_lower, word)
              THEN 1 ELSE 0)
    ELSE 0

RECURSIVE WordScoreSum(_, _)
WordScoreSum(game_words, folder_lower) ==
    IF game_words = {} THEN 0
    ELSE LET w == CHOOSE x \in game_words : TRUE
         IN WordScore(w, folder_lower) + WordScoreSum(game_words \ {w}, folder_lower)

\* one point for every generic folder pattern, contained or not
PatternScore_EveryPattern(folder_lower) == Len(game_patterns)

\* one point for every generic folder pattern the name contains
PatternScore(folder_lower) ==
    SumSeq([i \in 1..Len(game_patterns) |->
              IF Contains(folder_lower, game_patterns[i]) THEN 1 ELSE 0])

\* ExactMatch comparing the folder name as it is spelled
ExactMatch_FolderNotLowered(folder_name_, full_game_name) ==
    folder_name_ = Lower(full_game_name)

ExactMatch(folder_name_, full_game_name) ==
    Lower(folder_name_) = Lower(full_game_name)

CalculateFolderMatchScore(folder_name_, game_words, full_game_name) ==
    LET folder_lower == Lower(folder_name_)
    IN IF ExactMatch(folder_name_, full_game_name)
       THEN 10
       ELSE OverlapScore(folder_lower, game_words)
            + WordScoreSum(game_words, folder_lower)
            + PatternScore(folder_lower)

-----------------------------------------------------------------------------
(* assess_save_folder_confidence *)

\* A directory entry as the assessor sees it: its name, whether
\* os.path.getmtime succeeds on it, and its age in whole days
\* ((current_time - mtime) / (24 * 3600), rounded down).

save_extensions ==
    <<
      <<".","s","a","v">>, <<".","s","a","v","e">>,
      <<".","d","a","t">>, <<".","x","m","l">>,
      <<".","j","s","o","n">>, <<".","c","f","g">>,
      <<".","i","n","i">>, <<".","s","l","2">>,
      <<".","e","s","s">>, <<".","b","a","k">>,
      <<".","v","d","f">> >>

save_patterns ==
    <<
      <<"s","a","v","e">>, <<"p","r","o","f","i","l","e">>,
      <<"c","o","n","f","i","g">>, <<"s","e","t","t","i","n","g","s">>,
      <<"u","s","e","r">>, <<"s","l","o","t">>,
      <<"p","r","o","g","r","e","s","s">>, <<"s","a","v","e","g","a","m","e">> >>

numbered_words ==
    <<
      <<"s","a","v","e">>, <<"s","l","o","t">>, <<"p","r","o","f","i","l","e">> >>

Digits == {"0","1","2","3","4","5","6","7","8","9"}

RecentDays == 30
VeryRecentDays == 7
RecentBonusCap == 5
ReasonableCount == 50
ConfidenceCap == 10

\* any(item_lower.endswith(ext)): 2, once
ExtensionScore(item_lower) ==
    IF \E i \in 1..Len(save_extensions) : EndsWith(item_lower, save_extensions[i])
    THEN 2 ELSE 0

\* any(pattern in item_lower): 1, once
NamePatternScore(item_lower) ==
    IF \E i \in 1..Len(save_patterns) : Contains(item_lower, save_patterns[i])
    THEN 1 ELSE 0

\* re.search(r'(save|slot|profile)\d+', item_lower): 2
NumberedSave(item_lower) ==
    \E i \in 1..Len(numbered_words) :
        LET w == numbered_words[i]
        IN \E a \in 1..(Len(item_lower) - Len(w)) :
              /\ Slice(item_lower, a, a + Len(w) - 1) = w
              /\ item_lower[a + Len(w)] \in Digits

NumberedScore(item_lower) == IF NumberedSave(item_lower) THEN 2 ELSE 0

\* what one entry adds to confidence inside the loop
ItemConfidence(item) ==
    LET item_lower == Lower(item.name)
    IN ExtensionScore(item_lower) + NamePatternScore(item_lower)
       + NumberedScore(item_lower)

IsRecent(item) == item.mtime_ok /\ item.days_old < RecentDays

\* what one entry adds to recent_activity_bonus
ItemRecentBonus(item) ==
    IF IsRecent(item)
    THEN (IF item.days_old < VeryRecentDays THEN 2 ELSE 1)
    ELSE 0

\* recent_files after the loop
RecentFiles(items_) == Cardinality({i \in 1..Len(items_) : IsRecent(items_[i])})

\* confidence before the final cap
RawConfidence(items_) ==
    SumSeq([i \in 1..Len(items_) |-> ItemConfidence(items_[i])])
    + Min(SumSeq([i \in 1..Len(items_) |-> ItemRecentBonus(items_[i])]), RecentBonusCap)
    + (IF 0 < Len(items_) /\ Len(items_) < ReasonableCount /\ RecentFiles(items_) > 0
       THEN 2 ELSE 0)

\* the assessor without the final min(confidence, 10)
AssessSaveFolderConfidence_NoCap(items_, listable_) ==
    IF listable_ THEN RawConfidence(items_) ELSE 0

\* the value returned: os.listdir raising PermissionError (listable_ FALSE)
\* leaves confidence at 0
AssessSaveFolderConfidence(items_, listable_) ==
    Min(IF listable_ THEN RawConfidence(items_) ELSE 0, ConfidenceCap)

-----------------------------------------------------------------------------
(* fuzzy_search *)

\* the number of words of name_lower.split() that start with the query
WordStartCount(name_lower, query_lower) ==
    LET words == WhitespaceSplit(name_lower)
    IN Cardinality({i \in 1..Len(words) : StartsWith(words[i], query_lower)})

\* the relevance score without the 200 of a name equal to the query
FuzzyScore_NoExactBonus(name_lower, query_lower) ==
    (IF StartsWith(name_lower, query_lower) THEN 100 ELSE 0)
    + 50 * WordStartCount(name_lower, query_lower)

\* the relevance score of one name that contains the query
FuzzyScore(name_lower, query_lower) ==
    (IF StartsWith(name_lower, query_lower) THEN 100 ELSE 0)
    + (IF query_lower = name_lower THEN 200 ELSE 0)
    + 50 * WordStartCount(name_lower, query_lower)

\* the (score, app) pairs of the apps whose name contains the query, in
\* catalog order
FuzzyMatches(query_, apps_) ==
    LET query_lower == Lower(query_)
        hit(i) == Contains(Lower(apps_[i].name), query_lower)
        scored == [i \in 1..Len(apps_) |->
                     [score |-> IF hit(i)
                                THEN FuzzyScore(Lower(apps_[i].name), query_lower)
                                ELSE 0,
                      keep |-> hit(i),
                      app |-> apps_[i]]]
    IN SelectSeq(scored, LAMBDA m : m.keep)

\* a sort that puts a pair in front of the pairs of equal score
RECURSIVE InsertByScore_Unstable(_, _)
InsertByScore_Unstable(sorted, m) ==
    IF sorted = <<>> THEN <<m>>
    ELSE IF Head(sorted).score > m.score
         THEN <<Head(sorted)>> \o InsertByScore_Unstable(Tail(sorted), m)
         ELSE <<m>> \o sorted

\* the position a pair takes in a list sorted by descending score: behind
\* every pair whose score is not smaller (pairs of equal score keep their order)
RECURSIVE InsertByScore(_, _)
InsertByScore(sorted, m) ==
    IF sorted = <<>> THEN <<m>>
    ELSE IF Head(sorted).score >= m.score
         THEN <<Head(sorted)>> \o InsertByScore(Tail(sorted), m)
         ELSE <<m>> \o sorted

RECURSIVE SortFrom(_, _)
SortFrom(sorted, rest) ==
    IF rest = <<>> THEN sorted
    ELSE SortFrom(InsertByScore(sorted, Head(rest)), Tail(rest))

\* list.sort(key=score, reverse=True): descending and stable
SortByScoreDescending(ms) == SortFrom(<<>>, ms)

FuzzySearch(query_, apps_) ==
    LET sorted == SortByScoreDescending(FuzzyMatches(query_, apps_))
    IN [i \in 1..Len(sorted) |-> sorted[i].app]

-----------------------------------------------------------------------------
(* Paths and check_wiki_path *)

\* str.replace(old, new): every occurrence, left to right
RECURSIVE Replace(_, _, _)
Replace(s, old, new) ==
    IF s = <<>> \/ old = <<>> THEN s
    ELSE IF StartsWith(s, old)
         THEN new \o Replace(SubSeq(s, Len(old) + 1, Len(s)), old, new)
         ELSE <<Head(s)>> \o Replace(Tail(s), old, new)

\* str.lstrip(c) for one character c
RECURSIVE LStripChar(_, _)
LStripChar(s, c) ==
    IF s # <<>> /\ Head(s) = c THEN LStripChar(Tail(s), c) ELSE s

\* os.path.join(a, b) on POSIX
PathJoin(a, b) ==
    IF StartsWith(b, <<"/">>) THEN b
    ELSE IF a = <<>> \/ EndsWith(a, <<"/">>) THEN a \o b
    ELSE a \o <<"/">> \o b

SteamLibraryMarker == <<"<","S","t","e","a","m","L","i","b","r","a","r","y","-","f","o","l","d","e","r",">">>
NoteMarker == <<"[","N","o","t","e">>
AppDataVar == <<"%","A","P","P","D","A","T","A","%">>
LocalAppDataVar == <<"%","L","O","C","A","L","A","P","P","D","A","T","A","%">>
UserProfileVar == <<"%","U","S","E","R","P","R","O","F","I","L","E","%">>
WikiLabel ==
    <<"P","C"," ","G","a","m","i","n","g"," ","W","i","k","i"," ","S","a",
      "v","e"," ","L","o","c","a","t","i","o","n">>

\* compatdata_path/pfx/drive_c/users/steamuser
SteamUserRel == 
    <<"p","f","x","/","d","r","i","v","e","_","c","/","u","s","e","r","s",
      "/","s","t","e","a","m","u","s","e","r">>
AppDataRoamingRel == 
    SteamUserRel \o <<"/","A","p","p","D","a","t","a","/","R","o","a","m","i","n","g">>
AppDataLocalRel == 
    SteamUserRel \o <<"/","A","p","p","D","a","t","a","/","L","o","c","a","l">>

NoPath == <<>>

\* RelativePath without the stripping of the leading separators
RelativePath_NoStrip(wiki_path, placeholder) ==
    Replace(wiki_path, placeholder, <<>>)

\* what is left of the template without the placeholder and without leading
\* backslashes, then slashes
RelativePath(wiki_path, placeholder) ==
    LStripChar(LStripChar(Replace(wiki_path, placeholder, <<>>), "\\"), "/")

\* the path check_wiki_path tests with os.path.exists, or NoPath when the
\* template is skipped
WikiFullPath(compatdata_path, wiki_path) ==
    IF Contains(wiki_path, SteamLibraryMarker) \/ Contains(wiki_path, NoteMarker)
    THEN NoPath
    ELSE LET known == Contains(wiki_path, AppDataVar)
                      \/ Contains(wiki_path, LocalAppDataVar)
                      \/ Contains(wiki_path, UserProfileVar)
             base_path ==
                 IF Contains(wiki_path, AppDataVar)
                 THEN PathJoin(compatdata_path, AppDataRoamingRel)
                 ELSE IF Contains(wiki_path, LocalAppDataVar)
                 THEN PathJoin(compatdata_path, AppDataLocalRel)
                 ELSE PathJoin(compatdata_path, SteamUserRel)
             relative_path ==
                 IF Contains(wiki_path, AppDataVar)
                 THEN RelativePath(wiki_path, AppDataVar)
                 ELSE IF Contains(wiki_path, LocalAppDataVar)
                 THEN RelativePath(wiki_path, LocalAppDataVar)
                 ELSE RelativePath(wiki_path, UserProfileVar)
         IN IF known /\ relative_path # <<>>
            THEN PathJoin(base_path, Replace(relative_path, <<"\\">>, <<"/">>))
            ELSE NoPath

-----------------------------------------------------------------------------
(* find_folders and find_game_folders *)

\* self.steam_libraries: two library directories, their paths abbreviated
LibraryPaths == << <<"/","a","/">>, <<"/","b","/">> >>

\* str(app_id)
AppIdText == <<"7">>

\* the library itself taken for the compat-data directory of the app
CompatDataPath_NoAppId(lib) == LibraryPaths[lib]

CompatDataPath(lib) == PathJoin(LibraryPaths[lib], AppIdText)

\* appdata_paths followed by other_paths: the label and the path below
\* compatdata_path of the six sub-locations, in the order they are probed
SubLocations ==
    << [type |-> <<"A","p","p","D","a","t","a","/","L","o","c","a","l">>,
        rel |-> SteamUserRel \o <<"/","A","p","p","D","a","t","a","/","L","o","c","a","l">>],
       [type |-> <<"A","p","p","D","a","t","a","/","R","o","a","m","i","n","g">>,
        rel |-> SteamUserRel \o <<"/","A","p","p","D","a","t","a","/","R","o","a","m","i","n","g">>],
       [type |-> <<"A","p","p","D","a","t","a","/","L","o","c","a","l","L","o","w">>,
        rel |-> SteamUserRel \o <<"/","A","p","p","D","a","t","a","/","L","o","c","a","l","L","o","w">>],
       [type |-> <<"D","o","c","u","m","e","n","t","s">>,
        rel |-> SteamUserRel \o <<"/","D","o","c","u","m","e","n","t","s">>],
       [type |-> <<"M","y"," ","G","a","m","e","s">>,
        rel |-> SteamUserRel \o <<"/","D","o","c","u","m","e","n","t","s","/","M","y"," ","G","a","m","e","s">>],
       [type |-> <<"S","a","v","e","d"," ","G","a","m","e","s">>,
        rel |-> SteamUserRel \o <<"/","S","a","v","e","d"," ","G","a","m","e","s">>] >>

SubLocationPath(lib, k) == PathJoin(CompatDataPath(lib), SubLocations[k].rel)

LikelyText == <<"L","i","k","e","l","y"," ","S","a","v","e"," ","F","o","l","d","e","r">>
GameFolderText == <<"G","a","m","e"," ","F","o","l","d","e","r">>
PotentialText == <<"P","o","t","e","n","t","i","a","l"," ","G","a","m","e"," ","F","o","l","d","e","r">>
PotentialWord == <<"P","o","t","e","n","t","i","a","l">>

\* f"{prefix} ({location_type})"
Described(prefix, location_type) ==
    prefix \o <<" ", "(">> \o location_type \o <<")">>

\* Classify with the name-match threshold of the potential folders dropped
Classify_NoThreshold(score, confidence, location_type) ==
    IF confidence > 0
    THEN IF confidence >= 2
         THEN Described(LikelyText, location_type)
         ELSE Described(GameFolderText, location_type)
    ELSE Described(PotentialText, location_type)

\* the folder_type find_game_folders appends for a subdirectory whose name
\* scored above 0, or NoValue when it appends nothing
Classify(score, confidence, location_type) ==
    IF confidence > 0
    THEN IF confidence >= 2
         THEN Described(LikelyText, location_type)
         ELSE Described(GameFolderText, location_type)
    ELSE IF score >= 3
         THEN Described(PotentialText, location_type)
         ELSE NoValue

\* get_folder_priority without the bonus for a recent modification
RecencyBonus_None(mtime_ok, days_old) == 0

\* the bonus get_folder_priority adds for the folder's modification time; a
\* failing os.path.getmtime adds nothing
RecencyBonus(mtime_ok, days_old) ==
    IF ~mtime_ok THEN 0
    ELSE IF days_old < 1 THEN 20
    ELSE IF days_old < 7 THEN 10
    ELSE IF days_old < 30 THEN 5
    ELSE 0

\* the tier get_folder_priority gives a folder_type
TypePriority(folder_type) ==
    IF Contains(folder_type, LikelyText) THEN 1000
    ELSE IF Contains(folder_type, GameFolderText) THEN 100
    ELSE IF Contains(folder_type, PotentialWord) THEN 50
    ELSE 0

\* -get_folder_priority(folder_item)
FolderPriority(folder_type, mtime_ok, days_old) ==
    TypePriority(folder_type) + RecencyBonus(mtime_ok, days_old)

-----------------------------------------------------------------------------
(* Bounded inputs *)

MaxTitleWords == 2
MaxFolderParts == 2

\* every sequence of 1..n elements of S
SeqsUpTo(S, n) == UNION {[1..k -> S] : k \in 1..n}

\* the words titles are made of: capitalised words, stop words, a plural,
\* words ending in "ss" and in a stop word plus "s"
TitleWords ==
    {
      <<"T","h","e">>, <<"A","n","d","s">>, <<"C","h","e","s","s">>,
      <<"G","a","m","e">>, <<"M","y">>, <<"S","a","v","e","s">>,
      <<"o","f">>, <<"D","o","o","m">> }

TitleSeps == { <<" ">>, <<":"," ">>, <<"-">> }

Titles ==
    {JoinWith(ws, sep) : ws \in SeqsUpTo(TitleWords, MaxTitleWords), sep \in TitleSeps}

\* the titles and the folder names of the folder matcher
MatchTitleWords ==
    {
      <<"M","y">>, <<"G","a","m","e">>, <<"D","o","o","m">>, <<"S","a","v","e","s">> }

MatchTitles ==
    {JoinWith(ws, <<" ">>) : ws \in SeqsUpTo(MatchTitleWords, MaxTitleWords)}

FolderParts ==
    {
      <<"M","y">>, <<"g","a","m","e">>, <<"s","a","v","e","g","a","m","e","s">>,
      <<"d","a","t","a">>, <<"D","o","o","m">> }

FolderSeps == { <<>>, <<" ">>, <<"-">> }

FolderNames ==
    {JoinWith(ps, sep) : ps \in SeqsUpTo(FolderParts, MaxFolderParts), sep \in FolderSeps}

\* the parts of the state an operation does not use
MatchIdle == keywords = {} /\ folder_name = NoValue /\ match_score = -1
AssessIdle == items = <<>> /\ listable = TRUE /\ save_confidence = -1
FuzzyIdle == query = NoValue /\ apps = <<>> /\ matches = <<>>
ParserIdle ==
    /\ in_save_section = FALSE
    /\ in_table_row = FALSE
    /\ in_table_cell = FALSE
    /\ current_cell_data = <<>>
    /\ current_row = <<>>
    /\ save_locations = <<>>
    /\ cell_count = 0
    /\ debug_sections = <<>>
DownloadIdle ==
    /\ steam_apps = <<>>
    /\ apps_at_start = <<>>
    /\ response = NoValue
    /\ status_var = "Ready"
    /\ cache_file = "absent"
ScanIdle ==
    /\ wiki_paths = <<>>
    /\ library = 0
    /\ hint_index = 0
    /\ sub_index = 0
    /\ listing = <<>>
    /\ found_folders = <<>>
    /\ shown = <<>>
    /\ raised = "none"
    /\ existing = {}

-----------------------------------------------------------------------------
(* The keyword extractor applied to a title *)

InitKeywords ==
    /\ pc = "kw_input"
    /\ app_name \in Titles
    /\ MatchIdle /\ AssessIdle /\ FuzzyIdle /\ ScanIdle
    /\ ParserIdle /\ DownloadIdle

ExtractKeywords ==
    /\ pc = "kw_input"
    /\ keywords' = ExtractGameKeywords(app_name)
    /\ pc' = "kw_done"
    /\ UNCHANGED <<app_name, parserVars, downloadVars, folder_name, match_score,
                   assessVars, fuzzyVars,
                   scanVars>>

NextKeywords == ExtractKeywords

SpecKeywords == InitKeywords /\ [][NextKeywords]_vars

\* the extraction applied to every token of the result, and the union taken
ReExtracted == UNION {ExtractGameKeywords(t) : t \in keywords}

\* the tokens of the result a second extraction strips an 's' from
StrippedAgain ==
    {SubSeq(t, 1, Len(t) - 1) :
        t \in {u \in keywords \ common_words : EndsWith(u, <<"s">>) /\ Len(u) > 3}}

\* C4: the token set of a title holds no stop word and no token of length
\* 2 or less, the tokens made by stripping a trailing 's' included.
C4_NoStopWordNoShortToken ==
    pc = "kw_done" =>
        \A t \in keywords : t \notin common_words /\ Len(t) > 2

-----------------------------------------------------------------------------
(* The folder matcher applied to a folder name and a title *)

InitMatch ==
    /\ pc = "match_input"
    /\ app_name \in MatchTitles
    /\ folder_name \in FolderNames
    /\ keywords = {}
    /\ match_score = -1
    /\ AssessIdle /\ FuzzyIdle /\ ScanIdle
    /\ ParserIdle /\ DownloadIdle

\* find_game_folders line 496 and 502: the keywords of the title, then the score
ScoreFolder ==
    /\ pc = "match_input"
    /\ keywords' = ExtractGameKeywords(app_name)
    /\ match_score' = CalculateFolderMatchScore(folder_name, keywords', app_name)
    /\ pc' = "match_done"
    /\ UNCHANGED <<app_name, parserVars, downloadVars, folder_name, assessVars,
                   fuzzyVars, scanVars>>

NextMatch == ScoreFolder

SpecMatch == InitMatch /\ [][NextMatch]_vars

\* C3 as stated: the score is exactly 10 if and only if the lower-cased
\* folder name equals the lower-cased title.
C3_TenIffExact ==
    pc = "match_done" =>
        (match_score = 10 <=> Lower(folder_name) = Lower(app_name))

\* C3 as amended: a folder name that equals the title up to case scores
\* exactly 10 (a name that differs may add up to 10 as well).
C3_ExactScoresTen ==
    (pc = "match_done" /\ Lower(folder_name) = Lower(app_name)) =>
        match_score = 10

\* a folder name spelled differently from the title and equal to it up to case
C3_ExactUpToCase ==
    /\ pc = "match_done"
    /\ Lower(folder_name) = Lower(app_name)
    /\ folder_name # app_name

-----------------------------------------------------------------------------
(* The content assessor applied to a directory *)

MaxItems == 2

ItemNames ==
    {
      <<"s","l","o","t","1",".","s","a","v">>, <<"s","a","v","e">>,
      <<"r","e","a","d","m","e">>, <<"C","o","n","f","i","g",".","I","N","I">> }

\* ages on both sides of the 7 and the 30 day limits
ItemAges == {0, 7, 30}

Items ==
    {[name |-> n, mtime_ok |-> TRUE, days_old |-> d] : n \in ItemNames, d \in ItemAges}
    \cup {[name |-> n, mtime_ok |-> FALSE, days_old |-> 0] : n \in ItemNames}

\* the listings of a directory: entries with distinct names, in any order
Listings(n) ==
    {<<>>} \cup
    {l \in SeqsUpTo(Items, n) :
        \A i, j \in 1..Len(l) : i # j => l[i].name # l[j].name}

InitAssess ==
    /\ pc = "assess_input"
    /\ listable \in BOOLEAN
    /\ items \in (IF listable THEN Listings(MaxItems) ELSE {<<>>})
    /\ save_confidence = -1
    /\ app_name = NoValue
    /\ MatchIdle /\ FuzzyIdle /\ ScanIdle
    /\ ParserIdle /\ DownloadIdle

AssessFolder ==
    /\ pc = "assess_input"
    /\ save_confidence' = AssessSaveFolderConfidence(items, listable)
    /\ pc' = "assess_done"
    /\ UNCHANGED <<app_name, parserVars, downloadVars, matchVars, items, listable,
                   fuzzyVars, scanVars>>

NextAssess == AssessFolder

SpecAssess == InitAssess /\ [][NextAssess]_vars

\* C7: the assessor returns an integer from 0 to 10 for every directory,
\* readable or not, and 0 for a directory with no children.
C7_ConfidenceInRange ==
    pc = "assess_done" =>
        /\ save_confidence \in 0..10
        /\ (items = <<>> => save_confidence = 0)

\* a readable directory whose signals add up to more than 10
C7_CapReached ==
    /\ pc = "assess_done"
    /\ listable
    /\ RawConfidence(items) > 10

-----------------------------------------------------------------------------
(* The fuzzy search applied to a query and a catalog *)

MaxApps == 3

AppNames ==
    {
      <<"D","O","O","M"," ","E","t","e","r","n","a","l">>, <<"D","o","o","m">>,
      <<"P","s","e","u","d","o","o","m">>, <<"Q","u","a","k","e">>,
      <<"D">>, <<"D"," ","D"," ","D"," ","D"," ","D">>, <<"A"," ","D"," ","D"," ","D">> }

Queries ==
    {
      <<"d","o","o","m">>, <<"D","o","o">>, <<"e","t","e","r","n","a","l">>, <<"d">> }

\* the catalogs: every app has its own appid, here its place in the catalog
Catalogs ==
    {[i \in 1..Len(ns) |-> [name |-> ns[i], appid |-> i]] :
        ns \in SeqsUpTo(AppNames, MaxApps)}

InitFuzzy ==
    /\ pc = "search_input"
    /\ query \in Queries
    /\ apps \in Catalogs
    /\ matches = <<>>
    /\ app_name = NoValue
    /\ MatchIdle /\ AssessIdle /\ ScanIdle
    /\ ParserIdle /\ DownloadIdle

Search ==
    /\ pc = "search_input"
    /\ matches' = FuzzySearch(query, apps)
    /\ pc' = "search_done"
    /\ UNCHANGED <<app_name, parserVars, downloadVars, matchVars, assessVars, query,
                   apps, scanVars>>

NextFuzzy == Search

SpecFuzzy == InitFuzzy /\ [][NextFuzzy]_vars

\* the score of C10: 100 for a name that starts with the query, 200 more for
\* a name equal to it, 50 for each word of the name that starts with it
StatedScore(app) ==
    LET n == Lower(app.name)
        q == Lower(query)
        ws == WhitespaceSplit(n)
    IN (IF StartsWith(n, q) THEN 100 ELSE 0)
       + (IF n = q THEN 200 ELSE 0)
       + 50 * Cardinality({i \in 1..Len(ws) : StartsWith(ws[i], q)})

\* C10: the search returns exactly the catalog entries whose lower-cased
\* name contains the lower-cased query, by non-increasing score, entries of
\* equal score in catalog order.
C10_FuzzySearchResult ==
    pc = "search_done" =>
        /\ Range(matches)
             = {apps[i] : i \in {j \in 1..Len(apps) :
                                   Contains(Lower(apps[j].name), Lower(query))}}
        /\ \A i, j \in 1..Len(matches) :
              i < j =>
                 /\ matches[i] # matches[j]
                 /\ StatedScore(matches[i]) >= StatedScore(matches[j])
                 /\ (StatedScore(matches[i]) = StatedScore(matches[j])
                       => matches[i].appid < matches[j].appid)

\* a search that moves an entry in front of an earlier one and returns two
\* entries of equal score
C10_ReorderedAndTied ==
    /\ pc = "search_done"
    /\ \E i, j \in 1..Len(matches) :
          i < j /\ matches[i].appid > matches[j].appid
    /\ \E i, j \in 1..Len(matches) :
          i < j /\ StatedScore(matches[i]) = StatedScore(matches[j])

\* the three kinds of match of a returned entry
IsExactMatch(app) == Lower(app.name) = Lower(query)
IsPrefixMatch(app) ==
    StartsWith(Lower(app.name), Lower(query)) /\ ~IsExactMatch(app)
IsSubstringMatch(app) == ~StartsWith(Lower(app.name), Lower(query))

\* the number of words of an entry's name that start with the query
WordStarts(app) == WordStartCount(Lower(app.name), Lower(query))

\* C11 as stated: every entry equal to the query is returned before every
\* entry that only starts with it, and every entry that starts with the query
\* before every entry that contains it elsewhere.
C11_RankedByKind ==
    pc = "search_done" =>
        \A i, j \in 1..Len(matches) :
            /\ (IsExactMatch(matches[i]) /\ IsPrefixMatch(matches[j])) => i < j
            /\ (~IsSubstringMatch(matches[i]) /\ IsSubstringMatch(matches[j]))
                  => i < j

\* C11 amended: an entry equal to the query is returned before an entry that
\* only starts with it when the latter has fewer than four more words
\* starting with the query; an entry that starts with the query is returned
\* before an entry that contains it elsewhere when the latter has fewer than
\* two more words starting with the query.
C11_RankedByKindBounded ==
    pc = "search_done" =>
        \A i, j \in 1..Len(matches) :
            /\ (/\ IsExactMatch(matches[i])
                /\ IsPrefixMatch(matches[j])
                /\ WordStarts(matches[j]) < WordStarts(matches[i]) + 4) => i < j
            /\ (/\ ~IsSubstringMatch(matches[i])
                /\ IsSubstringMatch(matches[j])
                /\ WordStarts(matches[j]) < WordStarts(matches[i]) + 2) => i < j

\* a search returns an exact, a prefix and a substring match, the exact one
\* found last in the catalog
C11_ThreeKinds ==
    /\ pc = "search_done"
    /\ \E i, j, k \in 1..Len(matches) :
          /\ IsExactMatch(matches[i])
          /\ IsPrefixMatch(matches[j])
          /\ IsSubstringMatch(matches[k])
          /\ matches[i].appid > matches[j].appid
          /\ matches[j].appid > matches[k].appid

-----------------------------------------------------------------------------
(* find_folders: the discovery of the folders of one game *)

MaxChildren == 2
MaxFound == 2

ScanTitles == { <<"M","y"," ","G","a","m","e">> }

\* the template the wiki lookup can return
HintPool ==
    { <<"%","U","S","E","R","P","R","O","F","I","L","E","%","\\","D","o","c","u","m","e","n","t","s">> }

\* the wiki lookup found nothing, or one save location
HintLists == {<<>>} \cup {<<h>> : h \in HintPool}

\* names of the entries of a sub-location: names that score 4, 3, 1 and 0
\* against the title "My Game"
ScanNames ==
    { <<"M","y","G","a","m","e">>, <<"M","y"," ","G","a","m","e","s">>,
      <<"d","a","t","a">>, <<"U","n","i","t","y">> }

\* what a matched subdirectory holds: nothing, one old file named "save",
\* one file "slot1.sav" written today
ScanContents ==
    { <<>>,
      <<[name |-> <<"s","a","v","e">>, mtime_ok |-> TRUE, days_old |-> 30]>>,
      <<[name |-> <<"s","l","o","t","1",".","s","a","v">>, mtime_ok |-> TRUE,
         days_old |-> 0]>> }

\* what os.path.getmtime gives for a found folder: modified today, a week
\* ago, or an OSError
FolderAges == {0, 7}

MTimes ==
    {[mtime_ok |-> TRUE, days_old |-> d] : d \in FolderAges}
    \cup {[mtime_ok |-> FALSE, days_old |-> 0]}

NumLibraries == Len(LibraryPaths)
NumSubLocations == Len(SubLocations)

\* the loops of lines 415 and 430 go on to the next sub-location, and after
\* the last one the loop of line 399 to the next library
AfterSubLocation ==
    IF sub_index < NumSubLocations
    THEN pc' = "subloc" /\ sub_index' = sub_index + 1 /\ library' = library
    ELSE pc' = "library" /\ sub_index' = 0 /\ library' = library + 1

\* found_folders.append((folder_type, path))
Found(folder_type, path) == [folder_type |-> folder_type, path |-> path]

Init ==
    /\ pc = "library"
    /\ app_name \in ScanTitles
    /\ wiki_paths \in HintLists
    /\ library = 1
    /\ hint_index = 0
    /\ sub_index = 0
    /\ listing = <<>>
    /\ found_folders = <<>>
    /\ shown = <<>>
    /\ raised = "none"
    /\ existing = {}
    /\ MatchIdle /\ AssessIdle /\ FuzzyIdle
    /\ ParserIdle /\ DownloadIdle

\* line 402: os.path.exists(compatdata_path) is false
LibraryMissing ==
    /\ pc = "library"
    /\ library <= NumLibraries
    /\ library' = library + 1
    /\ UNCHANGED <<pc, app_name, parserVars, downloadVars, matchVars, assessVars,
                   fuzzyVars, wiki_paths, existing,
                   hint_index, sub_index, listing, found_folders, shown, raised>>

\* line 402: os.path.exists(compatdata_path) is true; the loop over the wiki
\* paths starts, or with no wiki path the probing of the sub-locations
LibraryFound ==
    /\ pc = "library"
    /\ library <= NumLibraries
    /\ IF wiki_paths # <<>>
       THEN pc' = "wiki" /\ hint_index' = 1 /\ sub_index' = 0
       ELSE pc' = "subloc" /\ hint_index' = 0 /\ sub_index' = 1
    /\ existing' = existing \cup {CompatDataPath(library)}
    /\ UNCHANGED <<app_name, parserVars, downloadVars, matchVars, assessVars, fuzzyVars, wiki_paths,
                   library, listing, found_folders, shown, raised>>

\* lines 404-406: check_wiki_path for one wiki path; the resolved path is
\* appended when os.path.exists finds it
CheckWikiPath ==
    /\ pc = "wiki"
    /\ LET full_path == WikiFullPath(CompatDataPath(library), wiki_paths[hint_index])
       IN \/ /\ full_path # NoPath
             /\ Len(found_folders) < MaxFound
             /\ found_folders' = Append(found_folders, Found(WikiLabel, full_path))
             /\ existing' = existing \cup {full_path}
          \/ UNCHANGED <<found_folders, existing>>
    /\ IF hint_index < Len(wiki_paths)
       THEN pc' = "wiki" /\ hint_index' = hint_index + 1 /\ sub_index' = 0
       ELSE pc' = "subloc" /\ hint_index' = 0 /\ sub_index' = 1
    /\ UNCHANGED <<app_name, parserVars, downloadVars, matchVars, assessVars, fuzzyVars, wiki_paths,
                   library, listing, shown, raised>>

\* lines 416 and 431: os.path.exists of the sub-location is false
SubLocationMissing ==
    /\ pc = "subloc"
    /\ AfterSubLocation
    /\ UNCHANGED <<app_name, parserVars, downloadVars, matchVars, assessVars, fuzzyVars,
                   wiki_paths, existing,
                   hint_index, listing, found_folders, shown, raised>>

\* lines 418 and 432: the sub-location exists and is appended as it is;
\* find_game_folders is entered
SubLocationFound ==
    /\ pc = "subloc"
    /\ Len(found_folders) < MaxFound
    /\ found_folders' = Append(found_folders,
                               Found(SubLocations[sub_index].type,
                                     SubLocationPath(library, sub_index)))
    /\ existing' = existing \cup {SubLocationPath(library, sub_index)}
    /\ pc' = "listdir"
    /\ UNCHANGED <<app_name, parserVars, downloadVars, matchVars, assessVars, fuzzyVars, wiki_paths,
                   library, hint_index, sub_index, listing, shown, raised>>

\* lines 496-498: the keywords of the title, then os.listdir(base_path)
\* succeeds; its entries are met one by one as the loop visits them
ListDir ==
    /\ pc = "listdir"
    /\ keywords' = ExtractGameKeywords(app_name)
    /\ listing' = <<>>
    /\ pc' = "scan"
    /\ UNCHANGED <<app_name, parserVars, downloadVars, folder_name, match_score,
                   assessVars, fuzzyVars,
                   wiki_paths, existing, library, hint_index, sub_index, found_folders,
                   shown, raised>>

\* lines 519-520: os.listdir(base_path) raises PermissionError, which
\* find_game_folders swallows
ListDirPermissionError ==
    /\ pc = "listdir"
    /\ AfterSubLocation
    /\ UNCHANGED <<app_name, parserVars, downloadVars, matchVars, assessVars, fuzzyVars,
                   wiki_paths, existing,
                   hint_index, listing, found_folders, shown, raised>>

\* the OSErrors of os.listdir that are no PermissionError: the path is a file,
\* or it was removed after os.path.exists saw it
OtherListDirErrors == {"NotADirectoryError", "FileNotFoundError"}

\* line 498: os.listdir(base_path) raises another OSError; no handler of
\* find_game_folders or find_folders catches it
ListDirRaises ==
    /\ pc = "listdir"
    /\ raised' \in OtherListDirErrors
    /\ pc' = "raised"
    /\ UNCHANGED <<app_name, parserVars, downloadVars, matchVars, assessVars, fuzzyVars,
                   wiki_paths, existing,
                   library, hint_index, sub_index, listing, found_folders, shown>>

\* the entries the listing can still hold: a directory has no two entries of
\* one name
NextItems ==
    IF Len(listing) < MaxChildren THEN ScanNames \ Range(listing) ELSE {}

ItemPath(item) == PathJoin(SubLocationPath(library, sub_index), item)

\* line 500: os.path.isdir(item_path) is false
ScanNotDir ==
    /\ pc = "scan"
    /\ \E item \in NextItems :
          /\ listing' = Append(listing, item)
          /\ folder_name' = item
    /\ match_score' = -1
    /\ items' = <<>> /\ listable' = TRUE /\ save_confidence' = -1
    /\ UNCHANGED <<pc, app_name, parserVars, downloadVars, keywords, fuzzyVars,
                   wiki_paths, existing, library,
                   hint_index, sub_index, found_folders, shown, raised>>

\* lines 500-517: a subdirectory is scored, assessed when its name scored
\* above 0, and appended under the folder_type its two scores give it
ScanDirectory ==
    /\ pc = "scan"
    /\ \E item \in NextItems :
          /\ listing' = Append(listing, item)
          /\ folder_name' = item
    /\ match_score' = CalculateFolderMatchScore(folder_name', keywords, app_name)
    /\ IF match_score' > 0
       THEN /\ listable' \in BOOLEAN
            /\ items' \in (IF listable' THEN ScanContents ELSE {<<>>})
            /\ save_confidence' = AssessSaveFolderConfidence(items', listable')
            /\ LET folder_desc == Classify(match_score', save_confidence',
                                           SubLocations[sub_index].type)
               IN IF folder_desc # NoValue
                  THEN /\ Len(found_folders) < MaxFound
                       /\ found_folders' = Append(found_folders,
                                                  Found(folder_desc,
                                                        ItemPath(folder_name')))
                  ELSE UNCHANGED found_folders
       ELSE /\ items' = <<>> /\ listable' = TRUE /\ save_confidence' = -1
            /\ UNCHANGED found_folders
    /\ UNCHANGED <<pc, app_name, parserVars, downloadVars, keywords, fuzzyVars,
                   wiki_paths, existing, library,
                   hint_index, sub_index, shown, raised>>

\* line 593: os.listdir(folder_path) of a matched subdirectory raises an
\* OSError that is no PermissionError; neither assess_save_folder_confidence
\* nor its callers catch it
ScanAssessRaises ==
    /\ pc = "scan"
    /\ \E item \in NextItems :
          /\ CalculateFolderMatchScore(item, keywords, app_name) > 0
          /\ listing' = Append(listing, item)
          /\ folder_name' = item
          /\ match_score' = CalculateFolderMatchScore(item, keywords, app_name)
    /\ raised' \in OtherListDirErrors
    /\ pc' = "raised"
    /\ UNCHANGED <<app_name, parserVars, downloadVars, keywords, assessVars, fuzzyVars,
                   wiki_paths, existing,
                   library, hint_index, sub_index, found_folders, shown>>

\* the loop of find_game_folders ends and the function returns
ScanDone ==
    /\ pc = "scan"
    /\ AfterSubLocation
    /\ listing' = <<>>
    /\ keywords' = {} /\ folder_name' = NoValue /\ match_score' = -1
    /\ items' = <<>> /\ listable' = TRUE /\ save_confidence' = -1
    /\ UNCHANGED <<app_name, parserVars, downloadVars, fuzzyVars, wiki_paths, existing, hint_index,
                   found_folders, shown, raised>>

\* the rows of found_folders with the key get_folder_priority gives each
\* under the modification times mt
Keyed(folders, mt) ==
    [i \in 1..Len(folders) |->
        [score |-> FolderPriority(folders[i].folder_type, mt[i].mtime_ok,
                                  mt[i].days_old),
         pos |-> i,
         folder_type |-> folders[i].folder_type,
         path |-> folders[i].path,
         mtime_ok |-> mt[i].mtime_ok,
         days_old |-> mt[i].days_old]]

\* lines 436-487: found_folders.sort(key=get_folder_priority), a stable sort
\* by descending priority, and the rows are shown
SortFolders ==
    /\ pc = "library"
    /\ library > NumLibraries
    /\ found_folders # <<>>
    /\ \E mt \in [1..Len(found_folders) -> MTimes] :
          /\ \A i, j \in 1..Len(found_folders) :
                found_folders[i].path = found_folders[j].path => mt[i] = mt[j]
          /\ shown' = SortByScoreDescending(Keyed(found_folders, mt))
    /\ pc' = "done"
    /\ UNCHANGED <<app_name, parserVars, downloadVars, matchVars, assessVars, fuzzyVars,
                   wiki_paths, existing,
                   library, hint_index, sub_index, listing, found_folders, raised>>

\* lines 488-490: nothing was found
NoFolders ==
    /\ pc = "library"
    /\ library > NumLibraries
    /\ found_folders = <<>>
    /\ pc' = "done"
    /\ UNCHANGED <<app_name, parserVars, downloadVars, matchVars, assessVars, fuzzyVars, scanVars>>

Next ==
    \/ LibraryMissing
    \/ LibraryFound
    \/ CheckWikiPath
    \/ SubLocationMissing
    \/ SubLocationFound
    \/ ListDir
    \/ ListDirPermissionError
    \/ ListDirRaises
    \/ ScanNotDir
    \/ ScanDirectory
    \/ ScanAssessRaises
    \/ ScanDone
    \/ SortFolders
    \/ NoFolders

Spec == Init /\ [][Next]_vars

-----------------------------------------------------------------------------
(* Properties of find_folders *)

\* the recency bonus as specified: 20 within a day, 10 within a week, 5
\* within 30 days, nothing for an older or an unreadable modification time
StatedRecency(row) ==
    IF ~row.mtime_ok THEN 0
    ELSE IF row.days_old < 1 THEN 20
    ELSE IF row.days_old < 7 THEN 10
    ELSE IF row.days_old < 30 THEN 5
    ELSE 0

IsWikiRow(row) == row.folder_type = WikiLabel
IsLandmarkRow(row) ==
    \E k \in 1..NumSubLocations : row.folder_type = SubLocations[k].type
IsLikelyRow(row) == StartsWith(row.folder_type, LikelyText \o <<" ", "(">>)
IsGameFolderRow(row) == StartsWith(row.folder_type, GameFolderText \o <<" ", "(">>)
IsPotentialRow(row) == StartsWith(row.folder_type, PotentialText \o <<" ", "(">>)

\* C1: every wiki-hint folder has priority 1000 plus its recency bonus, and
\* no landmark, 'Game Folder' or 'Potential Game Folder' row is shown before
\* a wiki-hint row.
C1_WikiHintTopTier ==
    pc = "done" =>
        \A i \in 1..Len(shown) :
            IsWikiRow(shown[i]) =>
                /\ shown[i].score = 1000 + StatedRecency(shown[i])
                /\ \A j \in 1..(i - 1) :
                      ~(IsLandmarkRow(shown[j]) \/ IsGameFolderRow(shown[j])
                        \/ IsPotentialRow(shown[j]))

\* C2: a 'Potential Game Folder' has priority 50 plus its recency bonus, a
\* 'Game Folder' 100 plus its recency bonus, and every 'Game Folder' row is
\* shown before every 'Potential Game Folder' row.
C2_GameFolderAbovePotential ==
    pc = "done" =>
        /\ \A i \in 1..Len(shown) :
              /\ IsPotentialRow(shown[i])
                    => shown[i].score = 50 + StatedRecency(shown[i])
              /\ IsGameFolderRow(shown[i])
                    => shown[i].score = 100 + StatedRecency(shown[i])
        /\ \A i, j \in 1..Len(shown) :
              (IsGameFolderRow(shown[i]) /\ IsPotentialRow(shown[j])) => i < j

\* C6: no filesystem condition makes the scan raise: find_game_folders and
\* assess_save_folder_confidence always complete normally.
C6_NoExceptionEscapes ==
    raised = "none"

\* the place in found_folders of the sub-location being scanned
LandmarkPos ==
    CHOOSE i \in 1..Len(found_folders) :
        /\ found_folders[i] = Found(SubLocations[sub_index].type,
                                    SubLocationPath(library, sub_index))
        /\ \A j \in (i + 1)..Len(found_folders) :
              found_folders[j] # found_folders[i]

\* the folder_types appended for the subdirectory last visited
EmittedAs ==
    LET later == SubSeq(found_folders, LandmarkPos + 1, Len(found_folders))
        mine == SelectSeq(later, LAMBDA f : f.path = ItemPath(folder_name))
    IN [i \in 1..Len(mine) |-> mine[i].folder_type]

LocationSuffix == <<" ", "(">> \o SubLocations[sub_index].type \o <<")">>

\* C8: for a subdirectory of a sub-location find_game_folders appends nothing
\* when MatchScore is 0; one 'Likely Save Folder' when MatchScore > 0 and
\* ContentConfidence >= 2; one 'Game Folder' when MatchScore > 0 and
\* 0 < ContentConfidence < 2; one 'Potential Game Folder' when
\* MatchScore >= 3 and ContentConfidence = 0; nothing when 0 < MatchScore < 3
\* and ContentConfidence = 0.
C8_Classification ==
    (pc = "scan" /\ folder_name # NoValue /\ match_score >= 0) =>
        /\ match_score = 0 => EmittedAs = <<>>
        /\ (match_score > 0 /\ save_confidence >= 2)
              => EmittedAs = << LikelyText \o LocationSuffix >>
        /\ (match_score > 0 /\ 0 < save_confidence /\ save_confidence < 2)
              => EmittedAs = << GameFolderText \o LocationSuffix >>
        /\ (match_score >= 3 /\ save_confidence = 0)
              => EmittedAs = << PotentialText \o LocationSuffix >>
        /\ (0 < match_score /\ match_score < 3 /\ save_confidence = 0)
              => EmittedAs = <<>>

\* a subdirectory with a strong name and no save-like content is appended
C8_PotentialAppended ==
    /\ pc = "scan"
    /\ folder_name # NoValue
    /\ match_score >= 3
    /\ save_confidence = 0
    /\ EmittedAs # <<>>

\* the library a shown path lies in, 0 for a path in none
LibraryOf(row) ==
    IF \E l \in 1..NumLibraries : StartsWith(row.path, LibraryPaths[l])
    THEN CHOOSE l \in 1..NumLibraries : StartsWith(row.path, LibraryPaths[l])
    ELSE 0

\* 0 for a wiki hint, else the index of the sub-location a row came from
SourceOf(row) ==
    IF IsWikiRow(row) THEN 0
    ELSE IF IsLandmarkRow(row)
    THEN CHOOSE k \in 1..NumSubLocations : row.folder_type = SubLocations[k].type
    ELSE CHOOSE k \in 1..NumSubLocations :
            EndsWith(row.folder_type, <<"(">> \o SubLocations[k].type \o <<")">>)

\* C9: the rows shown are the folders found, by non-increasing priority;
\* rows of equal priority are in the order they were found, which is root
\* order, then wiki hints before sub-locations, then sub-location order.
C9_SortedStable ==
    pc = "done" =>
        /\ Len(shown) = Len(found_folders)
        /\ {shown[i].pos : i \in 1..Len(shown)} = 1..Len(found_folders)
        /\ \A i \in 1..Len(shown) :
              Found(shown[i].folder_type, shown[i].path) = found_folders[shown[i].pos]
        /\ \A i, j \in 1..Len(shown) :
              i < j =>
                 /\ shown[i].score >= shown[j].score
                 /\ shown[i].score = shown[j].score =>
                       /\ shown[i].pos < shown[j].pos
                       /\ (LibraryOf(shown[i]) > 0 /\ LibraryOf(shown[j]) > 0)
                             => LibraryOf(shown[i]) <= LibraryOf(shown[j])
                       /\ (LibraryOf(shown[i]) > 0
                           /\ LibraryOf(shown[i]) = LibraryOf(shown[j]))
                             => SourceOf(shown[i]) <= SourceOf(shown[j])

\* the sort moved a folder found later in front of one found earlier
C9_Reordered ==
    /\ pc = "done"
    /\ \E i, j \in 1..Len(shown) : i < j /\ shown[i].pos > shown[j].pos

-----------------------------------------------------------------------------
(* check_wiki_path applied to one template *)

\* the list check_wiki_path returns: the resolved path when os.path.exists
\* finds it
CheckWikiPathResult(compatdata_path, wiki_path, exists) ==
    LET full_path == WikiFullPath(compatdata_path, wiki_path)
    IN IF full_path # NoPath /\ full_path \in exists
       THEN << Found(WikiLabel, full_path) >>
       ELSE <<>>

Placeholders == {AppDataVar, LocalAppDataVar, UserProfileVar}

\* what stands between the placeholder and the rest of a template
SingleLeads == { <<>>, <<"\\">>, <<"/">> }
MixedLeads == { <<"/", "\\">> }

\* the rest of a template: a relative Windows path
Remainders ==
    { <<"M","y","G","a","m","e">>,
      <<"M","y"," ","G","a","m","e","\\","S","a","v","e","s">>,
      <<".",".","\\",".",".","\\",".",".","\\","x">> }

TemplatePrefix == <<"C",":","\\","x">>

OtherTemplates ==
    { <<"<","S","t","e","a","m","L","i","b","r","a","r","y","-","f","o","l","d","e","r",">","\\","s","a","v","e","s">>,
      <<"%","A","P","P","D","A","T","A","%","\\","M","y","G","a","m","e","[","N","o","t","e"," ","1","]">>,
      <<"~","/",".","c","o","n","f","i","g","/","M","y","G","a","m","e">> }

Templates ==
    {p \o l \o r : p \in Placeholders, l \in SingleLeads \cup MixedLeads,
                   r \in Remainders \cup {<<>>}}
    \cup {TemplatePrefix \o p \o <<"\\">> \o r : p \in Placeholders, r \in Remainders}
    \cup OtherTemplates

\* the directory a placeholder stands for, below compatdata_path
PlaceholderBase(compatdata_path, placeholder) ==
    IF placeholder = AppDataVar THEN PathJoin(compatdata_path, AppDataRoamingRel)
    ELSE IF placeholder = LocalAppDataVar THEN PathJoin(compatdata_path, AppDataLocalRel)
    ELSE PathJoin(compatdata_path, SteamUserRel)

\* the paths whose existence matters to one call
ProbePaths(compatdata_path, wiki_path) ==
    ({WikiFullPath(compatdata_path, wiki_path)} \ {NoPath})
    \cup {PlaceholderBase(compatdata_path, p) :
             p \in {q \in Placeholders : Contains(wiki_path, q)}}

InitWiki ==
    /\ pc = "wiki_input"
    /\ wiki_paths \in {<<t>> : t \in Templates}
    /\ library \in 1..NumLibraries
    /\ existing \in SUBSET ProbePaths(CompatDataPath(library), wiki_paths[1])
    /\ hint_index = 1
    /\ sub_index = 0
    /\ listing = <<>>
    /\ found_folders = <<>>
    /\ shown = <<>>
    /\ raised = "none"
    /\ app_name = NoValue
    /\ MatchIdle /\ AssessIdle /\ FuzzyIdle
    /\ ParserIdle /\ DownloadIdle

CheckWikiPathCall ==
    /\ pc = "wiki_input"
    /\ found_folders' =
          CheckWikiPathResult(CompatDataPath(library), wiki_paths[hint_index], existing)
    /\ pc' = "wiki_done"
    /\ UNCHANGED <<app_name, parserVars, downloadVars, matchVars, assessVars, fuzzyVars, wiki_paths,
                   existing, library, hint_index, sub_index, listing, shown, raised>>

NextWiki == CheckWikiPathCall

SpecWiki == InitWiki /\ [][NextWiki]_vars

\* a Windows relative path with its backslashes turned into slashes
BackToForward(r) == [i \in 1..Len(r) |-> IF r[i] = "\\" THEN "/" ELSE r[i]]

\* the directory of a placeholder below the emulated user profile
ProfileSubPath(placeholder) ==
    IF placeholder = AppDataVar THEN <<"/","A","p","p","D","a","t","a","/","R","o","a","m","i","n","g">>
    ELSE IF placeholder = LocalAppDataVar THEN <<"/","A","p","p","D","a","t","a","/","L","o","c","a","l">>
    ELSE <<>>

\* <compat dir>/pfx/drive_c/users/steamuser
ProfileRoot(lib) ==
    LibraryPaths[lib] \o AppIdText \o <<"/","p","f","x","/","d","r","i","v","e","_","c","/","u","s","e","r","s","/","s","t","e","a","m","u","s","e","r">>

\* the path C12 states for a placeholder followed by a relative path
StatedWikiPath(lib, placeholder, r) ==
    ProfileRoot(lib) \o ProfileSubPath(placeholder) \o <<"/">> \o BackToForward(r)

\* C12: for a template made of a placeholder, at most one separator and a
\* non-empty relative path, check_wiki_path returns exactly the path
\* <compat dir>/pfx/drive_c/users/steamuser/<placeholder's directory>/<the
\* relative path with slashes> when that path exists, and nothing otherwise.
C12_PlaceholderResolved ==
    pc = "wiki_done" =>
        \A p \in Placeholders, l \in SingleLeads, r \in Remainders :
            wiki_paths[1] = p \o l \o r =>
                found_folders =
                    IF StatedWikiPath(library, p, r) \in existing
                    THEN << Found(WikiLabel, StatedWikiPath(library, p, r)) >>
                    ELSE <<>>

\* a template with a backslash inside its relative path resolved to an
\* existing path
C12_NestedPathFound ==
    /\ pc = "wiki_done"
    /\ wiki_paths[1] = LocalAppDataVar \o <<"\\">> \o <<"M","y"," ","G","a","m","e","\\","S","a","v","e","s">>
    /\ found_folders # <<>>
    /\ found_folders[1].path = StatedWikiPath(library, LocalAppDataVar, <<"M","y"," ","G","a","m","e","\\","S","a","v","e","s">>)

\* C15: for a template that is a placeholder alone, or a placeholder followed
\* by separators only, check_wiki_path returns the placeholder's base
\* directory whenever that directory exists.
C15_BarePlaceholderGivesBase ==
    pc = "wiki_done" =>
        \A p \in Placeholders, l \in SingleLeads \cup MixedLeads :
            (/\ wiki_paths[1] = p \o l
             /\ ProfileRoot(library) \o ProfileSubPath(p) \in existing)
                => found_folders =
                      << Found(WikiLabel, ProfileRoot(library) \o ProfileSubPath(p)) >>

\* the components of a path, split at the slashes
RECURSIVE SplitAtSlash(_, _)
SplitAtSlash(s, current) ==
    IF s = <<>> THEN <<current>>
    ELSE IF Head(s) = "/" THEN <<current>> \o SplitAtSlash(Tail(s), <<>>)
    ELSE SplitAtSlash(Tail(s), Append(current, Head(s)))

\* the components of the location an absolute path resolves to: empty and
\* "." components dropped, ".." leaving the directory reached so far
RECURSIVE Resolve(_, _)
Resolve(components, reached) ==
    IF components = <<>> THEN reached
    ELSE LET h == Head(components)
         IN IF h = <<>> \/ h = <<".">> THEN Resolve(Tail(components), reached)
            ELSE IF h = <<".", ".">>
            THEN Resolve(Tail(components),
                         IF reached = <<>> THEN reached
                         ELSE SubSeq(reached, 1, Len(reached) - 1))
            ELSE Resolve(Tail(components), Append(reached, h))

ResolvedLocation(path) == Resolve(SplitAtSlash(path, <<>>), <<>>)

\* location a is location b or lies below it
InsideLocation(a, b) == Len(a) >= Len(b) /\ SubSeq(a, 1, Len(b)) = b

\* C18: every path check_wiki_path returns resolves to a location inside
\* <compat dir>/pfx/drive_c/users/steamuser.
C18_InsideProfile ==
    pc = "wiki_done" =>
        \A i \in 1..Len(found_folders) :
            InsideLocation(ResolvedLocation(found_folders[i].path),
                           ResolvedLocation(ProfileRoot(library)))

-----------------------------------------------------------------------------
(* The end-to-end scenario: AppData/Roaming/MyGame holding slot1.sav *)

ScenarioFolder == <<"M","y","G","a","m","e">>
ScenarioSubLocation == 2
ScenarioLabel == <<"L","i","k","e","l","y"," ","S","a","v","e"," ","F","o","l","d","e","r"," ","(","A","p","p","D","a","t","a","/","R","o","a","m","i","n","g",")">>
ScenarioContent ==
    << [name |-> <<"s","l","o","t","1",".","s","a","v">>, mtime_ok |-> TRUE, days_old |-> 0] >>

\* <root>/<appId>/pfx/drive_c/users/steamuser/AppData/Roaming/MyGame
ScenarioPath(lib) ==
    ProfileRoot(lib) \o <<"/","A","p","p","D","a","t","a","/","R","o","a","m","i","n","g">> \o <<"/">> \o ScenarioFolder

IsScenarioRow(row) ==
    /\ row.folder_type = ScenarioLabel
    /\ \E lib \in 1..NumLibraries : row.path = ScenarioPath(lib)

\* the scan looks at the scenario's directory
AtScenarioFolder ==
    /\ pc = "scan"
    /\ sub_index = ScenarioSubLocation
    /\ folder_name = ScenarioFolder
    /\ listable
    /\ items = ScenarioContent

\* row i is the only row that came from a scanned subdirectory
OnlyGameFolder(i) ==
    \A j \in 1..Len(shown) :
        j # i => (IsLandmarkRow(shown[j]) \/ IsWikiRow(shown[j]))

\* C13 as stated: the directory MyGame below AppData/Roaming holding
\* slot1.sav modified today gets, for the title 'My Game', MatchScore >= 3,
\* ContentConfidence >= 4 and the label 'Likely Save Folder', and in the
\* result priority >= 1020 and the first place.
C13_EndToEnd ==
    /\ AtScenarioFolder =>
          /\ match_score >= 3
          /\ save_confidence >= 4
          /\ EmittedAs = << ScenarioLabel >>
    /\ pc = "done" =>
          \A i \in 1..Len(shown) :
              (IsScenarioRow(shown[i]) /\ OnlyGameFolder(i)) =>
                  /\ shown[i].score >= 1020
                  /\ i = 1

\* C13 amended: the same scores and label; the priority is 1000 plus the
\* recency bonus of the directory's own modification time, so at least 1000,
\* and 1020 when the directory itself was modified within one day; the row
\* is first.
C13_EndToEndOwnMtime ==
    /\ AtScenarioFolder =>
          /\ match_score >= 3
          /\ save_confidence >= 4
          /\ EmittedAs = << ScenarioLabel >>
    /\ pc = "done" =>
          \A i \in 1..Len(shown) :
              (IsScenarioRow(shown[i]) /\ OnlyGameFolder(i)) =>
                  /\ shown[i].score = 1000 + StatedRecency(shown[i])
                  /\ (shown[i].mtime_ok /\ shown[i].days_old < 1)
                        => shown[i].score >= 1020
                  /\ i = 1

\* the scenario's directory, modified today, is shown first, in front of
\* its landmark
C13_ScenarioShownFirst ==
    /\ pc = "done"
    /\ Len(shown) = 2
    /\ IsScenarioRow(shown[1])
    /\ shown[1].mtime_ok /\ shown[1].days_old = 0
    /\ shown[1].pos = 2
    /\ IsLandmarkRow(shown[2])

-----------------------------------------------------------------------------
(* No compatibility-data directory *)

\* <root>/<appId>
StatedCompatDir(lib) == LibraryPaths[lib] \o AppIdText

NoCompatDir == \A lib \in 1..NumLibraries : StatedCompatDir(lib) \notin existing

\* C14: as long as no root holds a directory named after the appId, nothing
\* is found, whatever the template hints, and nothing is raised; the result
\* is empty.
C14_NoCompatDirEmptyResult ==
    NoCompatDir =>
        /\ found_folders = <<>>
        /\ shown = <<>>
        /\ raised = "none"
        /\ pc \in {"library", "done"}

\* the discovery ended with a wiki hint supplied and no compat-data directory
C14_EndedEmptyWithHint ==
    /\ pc = "done"
    /\ NoCompatDir
    /\ wiki_paths # <<>>
    /\ WikiFullPath(StatedCompatDir(1), wiki_paths[1]) # NoPath

-----------------------------------------------------------------------------
(* Paths reported twice *)

\* C17: no path appears more than once among the folders found, nor among
\* the rows shown.
C17_PathsDistinct ==
    /\ \A i, j \in 1..Len(found_folders) :
          i # j => found_folders[i].path # found_folders[j].path
    /\ \A i, j \in 1..Len(shown) :
          i # j => shown[i].path # shown[j].path

-----------------------------------------------------------------------------
(* The names of the emitted subdirectories *)

\* the subdirectory last visited was appended to found_folders
Emitted == pc = "scan" /\ folder_name # NoValue /\ EmittedAs # <<>>

NameIsTitle == Lower(folder_name) = Lower(app_name)
NameHasKeyword == \E w \in keywords : Contains(Lower(folder_name), w)
NameHasPattern ==
    \E i \in 1..Len(game_patterns) : Contains(Lower(folder_name), game_patterns[i])

\* C19 as stated: a subdirectory is emitted only if its lower-cased name is
\* the lower-cased title or contains a keyword of the title.
C19_OnlyTitleRelated ==
    Emitted => (NameIsTitle \/ NameHasKeyword)

\* C19 amended: a subdirectory is emitted only if its lower-cased name is the
\* lower-cased title, contains a keyword of the title, or contains one of the
\* generic folder patterns (save, data, steam, user, settings, ...).
C19_TitleOrPatternRelated ==
    Emitted => (NameIsTitle \/ NameHasKeyword \/ NameHasPattern)

\* a subdirectory with no keyword of the title in its name is emitted for
\* the generic pattern in it and its save-like content
C19_PatternOnlyEmitted ==
    /\ Emitted
    /\ ~NameIsTitle
    /\ ~NameHasKeyword
    /\ NameHasPattern
    /\ save_confidence >= 2

-----------------------------------------------------------------------------
(* PCGamingWikiParser *)

\* the pieces of text handle_data received, as one string
RECURSIVE Flatten(_)
Flatten(chunks) ==
    IF chunks = <<>> THEN <<>> ELSE Head(chunks) \o Flatten(Tail(chunks))

\* the place of the last backslash of a path, 0 when it has none
LastBackslash(path) ==
    LET at == {i \in 1..Len(path) : path[i] = "\\"}
    IN IF at = {} THEN 0 ELSE CHOOSE i \in at : \A j \in at : j <= i

\* path.replace("&lt;", "<").replace("&gt;", ">")
Unescaped(path) ==
    Replace(Replace(path, <<"&","l","t",";">>, <<"<">>), <<"&","g","t",";">>, <<">">>)

\* lines 75-80: a path that ends with a file name is cut back to its directory
WithoutFileName(path) ==
    IF Contains(path, <<"\\">>) /\ ~EndsWith(path, <<"\\">>)
    THEN LET last_part == SubSeq(path, LastBackslash(path) + 1, Len(path))
         IN IF Contains(last_part, <<".">>) /\ ~StartsWith(last_part, <<".">>)
            THEN SubSeq(path, 1, LastBackslash(path) - 1)
            ELSE path
    ELSE path

\* lines 66-97: the save locations a completed row adds, none or one
RowLocations(row) ==
    IF Len(row) = 0 THEN <<>>
    ELSE IF Len(row) = 1
    THEN LET path == row[1]
         IN IF /\ path # <<>>
               /\ ~StartsWith(path, <<"N","/","A">>)
               /\ (Contains(path, <<"%">>) \/ Contains(path, <<"s","t","e","a","m","a","p","p","s">>))
            THEN << WithoutFileName(Unescaped(path)) >>
            ELSE <<>>
    ELSE LET system == Lower(row[1])
             path == row[2]
         IN IF /\ (Contains(system, <<"w","i","n","d","o","w","s">>) \/ Contains(system, <<"s","t","e","a","m">>))
               /\ path # <<>>
               /\ Unescaped(path) # <<>>
               /\ ~StartsWith(Unescaped(path), <<"N","/","A">>)
            THEN << Unescaped(path) >>
            ELSE <<>>

\* line 42: the id of a span names the save game section
IsSaveSectionId(attr_value) ==
    Contains(Lower(attr_value), <<"s","a","v","e">>) /\ Contains(Lower(attr_value), <<"g","a","m","e">>)

\* lines 39-41: the values of the non-empty id attributes of a tag
IdValues(attrs) ==
    LET ids == SelectSeq(attrs, LAMBDA a : a.name = "id" /\ a.value # <<>>)
    IN [i \in 1..Len(ids) |-> ids[i].value]

MaxChunks == 1
MaxCells == 2
MaxLocations == 2
MaxSections == 2

Tags == {"span", "table", "tr", "td"}

\* the attribute lists of the start tags
AttrLists ==
    { <<>>,
      << [name |-> "id", value |-> <<"S","a","v","e","_","g","a","m","e","_","d","a","t","a","_","l","o","c","a","t","i","o","n">>] >>,
      << [name |-> "id", value |-> <<"V","i","d","e","o">>] >>,
      << [name |-> "class", value |-> <<"S","a","v","e","_","g","a","m","e","_","d","a","t","a","_","l","o","c","a","t","i","o","n">>] >> }

\* the texts handle_data receives
DataPool ==
    { <<" ","W","i","n","d","o","w","s"," ">>,
      <<"%","A","P","P","D","A","T","A","%","\\","M","y","G","a","m","e","\\","s","a","v","e",".","d","a","t">>,
      <<"N","/","A">> }

InitParser ==
    /\ pc = "parsing"
    /\ app_name = NoValue
    /\ ParserIdle
    /\ MatchIdle /\ AssessIdle /\ FuzzyIdle /\ ScanIdle /\ DownloadIdle

\* handle_starttag(tag, attrs)
HandleStartTag ==
    /\ pc = "parsing"
    /\ \E tag \in Tags, attrs \in AttrLists :
          IF tag = "span"
          THEN /\ Len(debug_sections) + Len(IdValues(attrs)) <= MaxSections
               /\ debug_sections' = debug_sections \o IdValues(attrs)
               /\ in_save_section' =
                     IF \E i \in 1..Len(IdValues(attrs)) :
                           IsSaveSectionId(IdValues(attrs)[i])
                     THEN TRUE ELSE in_save_section
               /\ UNCHANGED <<in_table_row, in_table_cell, current_cell_data,
                              current_row, cell_count>>
          ELSE IF tag = "tr" /\ in_save_section
          THEN /\ in_table_row' = TRUE
               /\ current_row' = <<>>
               /\ cell_count' = 0
               /\ UNCHANGED <<in_save_section, in_table_cell, current_cell_data,
                              debug_sections>>
          ELSE IF tag = "td" /\ in_table_row
          THEN /\ in_table_cell' = TRUE
               /\ current_cell_data' = <<>>
               /\ UNCHANGED <<in_save_section, in_table_row, current_row,
                              cell_count, debug_sections>>
          ELSE UNCHANGED <<in_save_section, in_table_row, in_table_cell,
                           current_cell_data, current_row, cell_count,
                           debug_sections>>
    /\ UNCHANGED <<pc, app_name, matchVars, assessVars, fuzzyVars, scanVars,
                   save_locations, downloadVars>>

\* handle_endtag(tag)
HandleEndTag ==
    /\ pc = "parsing"
    /\ \E tag \in Tags :
          IF tag = "td" /\ in_table_cell
          THEN /\ Len(current_row) < MaxCells
               /\ in_table_cell' = FALSE
               /\ current_row' = Append(current_row, Strip(Flatten(current_cell_data)))
               /\ cell_count' = cell_count + 1
               /\ UNCHANGED <<in_save_section, in_table_row, save_locations>>
          ELSE IF tag = "tr" /\ in_table_row
          THEN /\ Len(save_locations) + Len(RowLocations(current_row)) <= MaxLocations
               /\ in_table_row' = FALSE
               /\ save_locations' = save_locations \o RowLocations(current_row)
               /\ UNCHANGED <<in_save_section, in_table_cell, current_row, cell_count>>
          ELSE IF tag = "table" /\ in_save_section
          THEN /\ in_save_section' = FALSE
               /\ UNCHANGED <<in_table_row, in_table_cell, current_row, cell_count,
                              save_locations>>
          ELSE UNCHANGED <<in_save_section, in_table_row, in_table_cell,
                           current_row, cell_count, save_locations>>
    /\ UNCHANGED <<pc, app_name, matchVars, assessVars, fuzzyVars, scanVars,
                   current_cell_data, debug_sections, downloadVars>>

\* handle_data(data)
HandleData ==
    /\ pc = "parsing"
    /\ \E data \in DataPool :
          IF in_table_cell
          THEN /\ Len(current_cell_data) < MaxChunks
               /\ current_cell_data' = Append(current_cell_data, data)
          ELSE UNCHANGED current_cell_data
    /\ UNCHANGED <<pc, app_name, matchVars, assessVars, fuzzyVars, scanVars,
                   in_save_section, in_table_row, in_table_cell, current_row,
                   save_locations, cell_count, debug_sections, downloadVars>>

NextParser ==
    \/ HandleStartTag
    \/ HandleEndTag
    \/ HandleData

SpecParser == InitParser /\ [][NextParser]_vars

\* C16: after any sequence of events the flags are nested: in a cell only
\* inside a row, in a row only inside the save section.
C16_FlagsNested ==
    /\ in_table_cell => in_table_row
    /\ in_table_row => in_save_section

-----------------------------------------------------------------------------
(* download_steam_apps *)

\* line 268: the entries kept as games
IsGameEntry(app) ==
    Len(app.name) > 3 /\ ~StartsWith(app.name, <<"S","t","e","a","m","w","o","r","k","s">>)

\* an entry of the reply carries a name
HasName(app) == "name" \in DOMAIN app

\* lines 265-268: data['applist']['apps'] can be read and filtered
Filterable(data) ==
    /\ data.applist_ok
    /\ \A i \in 1..Len(data.apps) : HasName(data.apps[i])

\* line 268: filtered_apps
FilteredApps(data) == SelectSeq(data.apps, IsGameEntry)

MaxReplyApps == 2

\* the entries a reply can hold: games, a tool, a short name, an entry
\* without a name
ReplyEntries ==
    { [name |-> <<"D","o","o","m">>, appid |-> 1],
      [name |-> <<"S","t","e","a","m","w","o","r","k","s"," ","S","D","K">>, appid |-> 2],
      [name |-> <<"a","b","c">>, appid |-> 3],
      [appid |-> 4] }

\* the decoded replies: a list of entries below 'applist', or a reply
\* without that key
Replies ==
    {[applist_ok |-> TRUE, apps |-> as] : as \in SeqsUpTo(ReplyEntries, MaxReplyApps)}
    \cup {[applist_ok |-> FALSE, apps |-> <<>>]}

\* the catalog in memory before the download: empty, or loaded earlier
EarlierCatalogs ==
    { <<>>, << [name |-> <<"Q","u","a","k","e">>, appid |-> 5] >> }

FailedText == "Failed to download game list"

InitDownload ==
    /\ pc = "download"
    /\ app_name = NoValue
    /\ steam_apps \in EarlierCatalogs
    /\ apps_at_start = steam_apps
    /\ response = NoValue
    /\ status_var = "Downloading Steam game list..."
    /\ cache_file \in {"absent", "stale"}
    /\ MatchIdle /\ AssessIdle /\ FuzzyIdle /\ ScanIdle /\ ParserIdle

\* lines 262-263: the reply is fetched and decoded
Fetch ==
    /\ pc = "download"
    /\ response' \in Replies
    /\ pc' = "fetched"
    /\ UNCHANGED <<app_name, matchVars, assessVars, fuzzyVars, scanVars, parserVars,
                   steam_apps, apps_at_start, status_var, cache_file>>

\* lines 262-263 raise: no network, a timeout, a reply that is no JSON
FetchFails ==
    /\ pc = "download"
    /\ status_var' = FailedText
    /\ pc' = "failed"
    /\ UNCHANGED <<app_name, matchVars, assessVars, fuzzyVars, scanVars, parserVars,
                   steam_apps, apps_at_start, response, cache_file>>

\* lines 265-270: the reply is filtered and becomes the catalog; a reply of
\* another shape raises before the assignment
FilterAndStore ==
    /\ pc = "fetched"
    /\ IF Filterable(response)
       THEN /\ steam_apps' = FilteredApps(response)
            /\ pc' = "makedirs"
            /\ UNCHANGED status_var
       ELSE /\ status_var' = FailedText
            /\ pc' = "failed"
            /\ UNCHANGED steam_apps
    /\ UNCHANGED <<app_name, matchVars, assessVars, fuzzyVars, scanVars, parserVars,
                   apps_at_start, response, cache_file>>

\* line 273: os.makedirs succeeds
MakeDirs ==
    /\ pc = "makedirs"
    /\ pc' = "write"
    /\ UNCHANGED <<app_name, matchVars, assessVars, fuzzyVars, scanVars, parserVars,
                   downloadVars>>

\* line 273: os.makedirs raises
MakeDirsFails ==
    /\ pc = "makedirs"
    /\ status_var' = FailedText
    /\ pc' = "failed"
    /\ UNCHANGED <<app_name, matchVars, assessVars, fuzzyVars, scanVars, parserVars,
                   steam_apps, apps_at_start, response, cache_file>>

\* lines 274-281: the cache file is written and the success is reported
WriteCache ==
    /\ pc = "write"
    /\ cache_file' = [apps |-> steam_apps]
    /\ status_var' = "Downloaded"
    /\ pc' = "downloaded"
    /\ UNCHANGED <<app_name, matchVars, assessVars, fuzzyVars, scanVars, parserVars,
                   steam_apps, apps_at_start, response>>

\* lines 278-279 raise: the file cannot be opened, or the disk fills up
\* after open() has emptied it
WriteCacheFails ==
    /\ pc = "write"
    /\ cache_file' \in {cache_file, "truncated"}
    /\ status_var' = FailedText
    /\ pc' = "failed"
    /\ UNCHANGED <<app_name, matchVars, assessVars, fuzzyVars, scanVars, parserVars,
                   steam_apps, apps_at_start, response>>

NextDownload ==
    \/ Fetch
    \/ FetchFails
    \/ FilterAndStore
    \/ MakeDirs
    \/ MakeDirsFails
    \/ WriteCache
    \/ WriteCacheFails

SpecDownload == InitDownload /\ [][NextDownload]_vars

\* C20: whenever the download ends in the failure branch, the catalog in
\* memory is the one it was before the download started.
C20_FailureKeepsCatalog ==
    (pc = "failed" /\ status_var = FailedText) => steam_apps = apps_at_start

=============================================================================
